---- MODULE Spec2Model ----
(***************************************************************************)
(* Payment lifecycle and reconciliation of the admissions backend:         *)
(* PaymentController (initializePayment, verifyPayment, handleWebhook,     *)
(* processSuccessfulCharge) and PaymentService (gateway client, webhook    *)
(* signature check), over the Payment, Application and User collections.   *)
(*                                                                         *)
(* Every handler is an async function; each `await` on the database or on  *)
(* the gateway is a point where other requests interleave, so a handler is *)
(* a sequence of atomic steps, one per awaited operation.  A request slot  *)
(* holds the handler's position (pc) and its local variables, among them   *)
(* the Mongoose document it loaded (a snapshot: `doc*` fields).            *)
(*                                                                         *)
(* Document.save() sends only the paths whose value differs from the       *)
(* loaded one; findByIdAndUpdate sends exactly the listed fields.          *)
(* Database writes are assumed to succeed in Spec.  The metadata bag is    *)
(* opaque to the core and is not part of the state.                        *)
(*                                                                         *)
(* Application.save() validates the document it loaded; confirmPassword is *)
(* stored with every Application and compared with a password that is not  *)
(* loaded, so the save in initializePayment is rejected.  The steps of the *)
(* handlers behind that save are part of NextCode; Next has the steps a    *)
(* behaviour of the program takes.  The route POST /webhook is registered  *)
(* with the method alone (`this` is undefined in it) behind express.raw,   *)
(* so processSuccessfulCharge is run only when handleWebhook is called as  *)
(* a method of the controller: those steps are part of NextHandler.        *)
(***************************************************************************)
EXTENDS Integers, FiniteSets, Sequences, TLC

\* ---------------------------------------------------------------- bounds
MaxInFlight == 2     \* request slots: requests that can be in flight together
MaxReq      == 2     \* total number of requests started in a behaviour
MaxPayments == 2     \* Payment rows ever created
MaxTime     == 3     \* clock range 1..MaxTime
MaxAmount   == 2     \* amounts a request may carry: 1..MaxAmount major units
MaxReqAmount == 3    \* requests started in the behaviours that vary the amount
MaxReqSubmit == 3    \* submitApplication requests started in a behaviour

\* ------------------------------------------------------ program constants
MinorUnits == 100    \* `amount * 100`: minor units (kobo) per major unit
ExpiryHorizon == 1   \* expiresAt default: 24h after creation (the clock counts in units of 24h)

Apps      == {1}     \* existing Application ids
NoApp     == 0       \* an applicationId that matches no Application
BadId     == -2      \* an applicationId that is not an ObjectId (findById cannot cast it)
Users     == {1}     \* existing User ids (identified with their email)
Applicants == {2}    \* emails of people who have no account yet
NoUser    == 0       \* an email that matches no User
Null      == 0       \* null / unset reference
NoRef     == 0       \* a reference unknown to the gateway and to the store
Absent    == -100    \* req.query.reference missing or empty (`!reference`)
Unset     == -1      \* paidAt never assigned
Epoch     == 0       \* new Date(null): 1970-01-01

Slots == 1..MaxInFlight

VARIABLES
  now,        \* wall clock
  secret,     \* process.env.PAYSTACK_WEBHOOK_SECRET (NoKey when not configured)
  payments,   \* Payment collection: id -> document
  nextPay,    \* next Payment _id
  apps,       \* Application collection: id -> [status, paymentStatus, payment, email, confirmStored]
  enrolled,   \* User collection: id -> enrolledPrograms as stored
  reg,        \* User collection: the emails (ids) of the Users that exist
  gw,         \* gateway transactions: reference -> [status, paidAt]
  issued,     \* references handed to a client in a checkout session
  req,        \* request slots: handler position and locals
  started,    \* number of requests started so far
  last,       \* the latest response given, with what its request did
  hist        \* observations of what the requests did (history)

vars == <<now, secret, payments, nextPay, apps, enrolled, reg, gw, issued, req, started, last, hist>>

db == <<payments, nextPay, apps, enrolled, reg>>

\* ------------------------------------------------------------ signatures
NoKey       == 0
GatewayKey  == 1     \* the shared secret, known to the gateway and (when configured) the server
AttackerKey == 2     \* any key that is not the shared secret

\* express.raw({ type: 'application/json' }): the body of a JSON request to
\* /api/payments/webhook reaches the handler as the Buffer of its bytes
RawBody(payload) == [type |-> "Buffer", data |-> <<payload.event, payload.ref, payload.paidAt>>]

IsBuffer(body) == "type" \in DOMAIN body

\* JSON.stringify(body): of a parsed body {event, data:{reference, paid_at}} its JSON
\* text; of a Buffer the text of {"type":"Buffer","data":[...]}
Stringify(body) ==
  IF IsBuffer(body)
    THEN <<"Buffer", body.data>>
    ELSE <<body.event, body.ref, body.paidAt>>

\* payload.event: a Buffer has no such property
EventOf(body) == IF IsBuffer(body) THEN "undefined" ELSE body.event

\* crypto.createHmac('sha512', key).update(msg).digest('hex')
Hmac(key, msg) == <<key, msg>>

\* a request without the x-paystack-signature header
NoSig == <<NoKey, <<"", 0, 0>>>>

\* The signature a sender holding `key` puts on `payload` (NoKey: no header):
\* the MAC of the bytes it sends, the JSON text of the payload.
SignatureBy(key, payload) ==
  IF key = NoKey THEN NoSig ELSE Hmac(key, Stringify(payload))

verifyWebhookSignature_Open(sec, payload, signature) == TRUE

\* PaymentService.verifyWebhookSignature
verifyWebhookSignature(sec, payload, signature) ==
  IF sec = NoKey
    THEN TRUE
    ELSE Hmac(sec, Stringify(payload)) = signature

\* ------------------------------------------------------------- documents
Terminal == {"success", "failed", "cancelled", "expired"}

\* new Date(x): null gives the epoch
DateOf(x) == IF x = Null THEN Epoch ELSE x

NewPayment_Paid(p, a, u, t, amt) ==
  [app |-> a, user |-> u, ref |-> -p, amount |-> amt,
   status |-> "pending", verified |-> FALSE, paidAt |-> t,
   expiresAt |-> t + ExpiryHorizon]

\* Payment.create({... status: 'pending'}) with the schema defaults
\* (the locally generated `PAY-<time>-<random>` reference of Payment p is -p;
\*  references issued by the gateway are positive)
NewPayment(p, a, u, t, amt) ==
  [app |-> a, user |-> u, ref |-> -p, amount |-> amt,
   status |-> "pending", verified |-> FALSE, paidAt |-> Unset,
   expiresAt |-> t + ExpiryHorizon]

\* existingPayment.expiresAt < new Date()
IsExpired(doc, t) == doc.expiresAt < t

\* Payment.findOne({ application, status: 'pending' }): the candidates
PendingOf(a) == {p \in DOMAIN payments : payments[p].app = a /\ payments[p].status = "pending"}

\* Payment.findOne({ reference }): the candidates (reference is unique)
ByReference(r) == {p \in DOMAIN payments : payments[p].ref = r}

\* Payment.findByIdAndDelete(id)
DeletePayment(ps, p) == [q \in (DOMAIN ps) \ {p} |-> ps[q]]

\* ------------------------------------------------------------- requests
IdleReq ==
  [pc |-> "idle", kind |-> "none",
   app |-> NoApp, email |-> NoUser, amount |-> 0, \* initializePayment body
   ref |-> NoRef,                                \* verify query / webhook data.reference
   event |-> "", paidAt |-> Null, sigKey |-> NoKey, \* webhook body and signer
   pay |-> Null,                                 \* the Payment document held
   docStatus |-> "", docVerified |-> FALSE, docPaidAt |-> Unset,  \* its values as loaded
   docRef |-> Null, docApp |-> NoApp, docUser |-> NoUser,
   old |-> Null, oldRef |-> Null,                \* the pending Payment found by initializePayment
   outcome |-> "", outPaidAt |-> Null,           \* verificationData.status / paid_at
   gref |-> Null,                                \* paymentResult.data.reference
   form |-> <<>>,                                \* submitApplication body (what its checks see)
   appStatus |-> "", appPaymentStatus |-> "",    \* the Application document as loaded
   result |-> "", retRef |-> Null,               \* response
   alone |-> FALSE,                              \* no other request was in flight on arrival
   wrote |-> FALSE, cascaded |-> "none"]         \* what the request did (history)

InFlight(s) == req[s].pc # "idle"
Free(s)     == ~InFlight(s)

\* requests are placed in the lowest free slot
FirstFree(s) == Free(s) /\ \A t \in Slots : t < s => InFlight(t)

\* HTTP status of a response
Code(result) ==
  CASE result \in {"initialized", "verified", "already_verified", "ack"} -> 200
    [] result = "submitted" -> 201
    [] result \in {"status_updated", "user_deleted", "assigned"} -> 200
    [] result \in {"reference_required", "verification_failed", "not_successful",
                   "validation_errors", "password_mismatch", "validation_failed",
                   "status_required", "cannot_delete_self", "invalid_reviewer",
                   "not_pending"} -> 400
    [] result \in {"pending_application", "user_exists", "email_exists"} -> 409
    [] result = "invalid_signature" -> 401
    [] result \in {"application_not_found", "user_not_found", "payment_not_found"} -> 404
    [] OTHER -> 500

\* res.status(..).json(..): the handler ends; its transient locals are dropped
Ended(r, result, ret) ==
  [IdleReq EXCEPT !.pc = "done", !.kind = r.kind, !.result = result, !.retRef = ret,
                  !.app = r.app, !.ref = r.ref, !.sigKey = r.sigKey, !.event = r.event,
                  !.pay = r.pay, !.old = r.old, !.oldRef = r.oldRef,
                  !.docVerified = r.docVerified, !.docStatus = r.docStatus,
                  !.alone = r.alone, !.wrote = r.wrote, !.cascaded = r.cascaded]

\* the slot of a request that has responded is free again
Reply(s, response) ==
  /\ req' = [req EXCEPT ![s] = IdleReq]
  /\ last' = response

\* per Payment: saves of status 'success' by verifyPayment, writes of status 'success'
\* by the webhook, success cascades by verifyPayment and by the webhook, cascade
\* updates that failed (counted up to HistCap)
NoHist == [vsave |-> 0, wsave |-> 0, vcasc |-> 0, wcasc |-> 0, cfail |-> 0]

HistCap == 2

Bump(n) == IF n < HistCap THEN n + 1 ELSE n

TypeOK ==
  /\ now \in 1..MaxTime
  /\ secret \in {NoKey, GatewayKey}
  /\ nextPay \in 1..(MaxPayments + 1)
  /\ DOMAIN payments \subseteq 1..MaxPayments
  /\ started \in Nat
  /\ \A a \in DOMAIN apps : apps[a].payment \in {Null} \cup (1..MaxPayments)
  /\ \A u \in Users : enrolled[u] \subseteq Apps
  /\ reg.users \subseteq Users \cup Applicants
  /\ Apps \subseteq DOMAIN apps
  /\ issued \subseteq DOMAIN gw

\* what a submitApplication body says about the paths status, paymentStatus and
\* payment of the Application (a body that leaves one out gets the schema's default)
DefaultBody == [status |-> "pending", paymentStatus |-> "pending", payment |-> Null]

\* new Application({...req.body, ipAddress, userAgent}): the document stored by
\* submitApplication has every declared path of the body, confirmPassword included
\* (required by the schema), and status, paymentStatus and payment as the body gives them
NewApplication(e, body) ==
  [status |-> body.status, paymentStatus |-> body.paymentStatus, payment |-> body.payment,
   email |-> e, confirmStored |-> TRUE]

\* status enum of applicationSchema (src/models/Application.js:57-61, 235-239)
StatusEnum == {"pending", "approved", "rejected", "enrolled"}

\* paymentStatus enum as replaced by applicationSchema.add (src/models/Application.js:240-244)
PaymentStatusEnum == {"pending", "paid", "expired"}

\* password has select: false: a find without .select('+password') does not load it
PasswordLoaded == FALSE

\* application.save() runs the schema's validators on the document the handler
\* loaded (r: its status and paymentStatus as read by findById): the enums;
\* confirmPassword's `required` ('Confirm password is required' when the stored
\* document has none); and, when it has one, the validator `el === this.password`,
\* which fails when this.password is not loaded
SaveValidates(r, app) ==
  /\ app.confirmStored
  /\ PasswordLoaded
  /\ r.appStatus \in StatusEnum
  /\ r.appPaymentStatus \in PaymentStatusEnum

\* User.findOne({ email }) returns a document
UserExists(e) == e \in reg.users

Init ==
  /\ now = 1
  /\ secret \in {NoKey, GatewayKey}
  /\ payments = <<>>
  /\ nextPay = 1
  /\ apps = [a \in Apps |-> NewApplication(a, DefaultBody)]
  /\ enrolled = [u \in Users |-> {}]
  /\ reg = [users |-> Users]
  /\ gw = <<>>
  /\ issued = {}
  /\ req = [s \in Slots |-> IdleReq]
  /\ started = 0
  /\ last = IdleReq
  /\ hist = [paid |-> [a \in Apps |-> 0], pay |-> <<>>]

\* ------------------------------------------------- arrival of requests
CanStart(s) == started < MaxReq /\ FirstFree(s)

\* Payments that in-flight initializePayment requests may still create
PendingCreates ==
  {s \in Slots : req[s].kind = "init" /\ req[s].pc \in {"i_pending", "i_expire", "i_user", "i_create"}}

Arrive(s, kind) ==
  [IdleReq EXCEPT !.kind = kind, !.alone = (\A t \in Slots \ {s} : ~InFlight(t))]

\* --------------------------------------------------------------- gateway
\* paystackClient.transaction.initialize: a new transaction with a fresh reference
NewGatewayRef == Len(gw) + 1

\* `amount * 100`: the request's amount in minor units (kobo)
ToMinor(amount) == amount * MinorUnits

\* Math.round(amount): amounts are whole numbers here, which Math.round keeps
Round(amount) == amount

\* the transaction records the amount sent and metadata.paymentId
OpenCheckout(amt, pid) ==
  Append(gw, [status |-> "abandoned", paidAt |-> Null, amount |-> Round(amt), paymentId |-> pid])

\* Document.save(): a path is written only when its value was changed on the document
SavePath(loaded, assigned, stored) == IF assigned # loaded THEN assigned ELSE stored

\* The document a handler holds after Payment.findOne: id and loaded field
\* values; user and application are the ids stored on the Payment.
Load(r, p) ==
  [r EXCEPT !.pay = p,
            !.docStatus = payments[p].status,
            !.docVerified = payments[p].verified,
            !.docPaidAt = payments[p].paidAt,
            !.docRef = payments[p].ref,
            !.docApp = payments[p].app,
            !.docUser = payments[p].user]

\* populate('user'): the User document, or null when the User no longer exists
Populated(u) == IF UserExists(u) THEN u ELSE Null

\* .populate({path: 'user'}).populate('application'): the queries that follow the
\* findOne read the User and the Application by the ids of the loaded document
\* (no operation deletes an Application, so its populate finds the document)
Populate(r) == [r EXCEPT !.docUser = Populated(r.docUser)]

\* ---------------------------------------------------- initializePayment
\* lines 18-25: Application.findById(applicationId) returns a document
ApplicationFound(a) == a \in DOMAIN apps

\* findById(id) casts the id to an ObjectId first; a value that cannot be cast
\* makes the query reject with a CastError
Castable(a) == a # BadId

\* POST /initialize {applicationId, email, amount}
\* lines 12-25: await Application.findById(applicationId); a rejected query goes to
\* the catch at 138-145, which answers 500
InitFindFor(s, a, e, amt) ==
  /\ (nextPay - 1) + Cardinality(PendingCreates) < MaxPayments
  /\ LET r == [Arrive(s, "init") EXCEPT !.app = a, !.email = e, !.amount = amt]
       IN IF ~Castable(a)
            THEN Reply(s, Ended(r, "server_error", Null))
            ELSE IF ~ApplicationFound(a)
            THEN Reply(s, Ended(r, "application_not_found", Null))
            ELSE last' = last /\ req' = [req EXCEPT ![s] =
                   [r EXCEPT !.pc = "i_pending", !.appStatus = apps[a].status,
                             !.appPaymentStatus = apps[a].paymentStatus]]
  /\ started' = started + 1
  /\ UNCHANGED <<now, secret, db, gw, issued, hist>>

\* lines 27-38: await Payment.findOne({ application, status: 'pending' })
InitPending(s) ==
  /\ req[s].pc = "i_pending"
  /\ LET r == req[s]
       IN IF PendingOf(r.app) = {}
            THEN req' = [req EXCEPT ![s].pc = "i_user"]
            ELSE \E p \in PendingOf(r.app) :
                   req' = [req EXCEPT ![s] =
                             [Load(r, p) EXCEPT !.old = p, !.oldRef = payments[p].ref,
                                                !.pc = IF IsExpired(payments[p], now)
                                                         THEN "i_expire" ELSE "i_reuse"]]
  /\ UNCHANGED <<now, secret, db, gw, issued, started, last, hist>>

InitFind(s) ==
  /\ CanStart(s)
  /\ \E a \in Apps \cup {NoApp, BadId}, e \in Users \cup {NoUser} : InitFindFor(s, a, e, MaxAmount)

\* lines 36-37: existingPayment.status = 'expired'; await existingPayment.save()
\* (save() of a document that was deleted meanwhile rejects: the catch answers 500)
Expire(r, doc) == [doc EXCEPT !.status = SavePath(r.docStatus, "expired", @)]

InitExpire(s) ==
  /\ req[s].pc = "i_expire"
  /\ IF req[s].old \in DOMAIN payments
       THEN /\ payments' = [payments EXCEPT ![req[s].old] = Expire(req[s], @)]
            /\ last' = last /\ req' = [req EXCEPT ![s].pc = "i_user", ![s].pay = Null]
       ELSE /\ payments' = payments
            /\ Reply(s, Ended(req[s], "server_error", Null))
  /\ UNCHANGED <<now, secret, nextPay, apps, enrolled, gw, issued, started, hist, reg>>

\* lines 40-62: re-use branch, a checkout session is opened for the request's data
InitReuse(s) ==
  /\ req[s].pc = "i_reuse"
  /\ \/ /\ gw' = OpenCheckout(ToMinor(req[s].amount), req[s].old)
        /\ issued' = issued \cup {NewGatewayRef}
        /\ Reply(s, Ended(req[s], "initialized", NewGatewayRef))
     \/ /\ Reply(s, Ended(req[s], "initialization_failed", Null))
        /\ UNCHANGED <<gw, issued>>
  /\ UNCHANGED <<now, secret, db, started, hist>>

\* lines 68-76: User.findOne({ email })
InitUser(s) ==
  /\ req[s].pc = "i_user"
  /\ IF ~UserExists(req[s].email)
       THEN Reply(s, Ended(req[s], "user_not_found", Null))
       ELSE last' = last /\ req' = [req EXCEPT ![s].pc = "i_create"]
  /\ UNCHANGED <<now, secret, db, gw, issued, started, hist>>

\* lines 85-98: Payment.create
InitCreate(s) ==
  /\ req[s].pc = "i_create"
  /\ payments' = (nextPay :> NewPayment(nextPay, req[s].app, req[s].email, now, ToMinor(req[s].amount))) @@ payments
  /\ nextPay' = nextPay + 1
  /\ hist' = [hist EXCEPT !.pay = (nextPay :> NoHist) @@ @]
  /\ last' = last /\ req' = [req EXCEPT ![s].pc = "i_link", ![s].pay = nextPay, ![s].docRef = -nextPay]
  /\ UNCHANGED <<now, secret, apps, enrolled, gw, issued, started, reg>>

\* lines 101-102: application.payment = payment._id; await application.save();
\* a rejected save goes to the catch at 138-145: 500, the Payment stays as created
InitLink(s) ==
  /\ req[s].pc = "i_link"
  /\ IF SaveValidates(req[s], apps[req[s].app])
       THEN /\ apps' = [apps EXCEPT ![req[s].app].payment = req[s].pay]
            /\ last' = last /\ req' = [req EXCEPT ![s].pc = "i_gateway"]
       ELSE /\ apps' = apps
            /\ Reply(s, Ended(req[s], "server_error", Null))
  /\ UNCHANGED <<now, secret, payments, nextPay, enrolled, gw, issued, started, hist, reg>>

\* lines 105-116 and PaymentService.initializePayment: the call succeeds or throws
InitGateway(s) ==
  /\ req[s].pc = "i_gateway"
  /\ \/ /\ gw' = OpenCheckout(ToMinor(req[s].amount), req[s].pay)
        /\ last' = last /\ req' = [req EXCEPT ![s].pc = "i_setref", ![s].gref = NewGatewayRef]
     \/ /\ last' = last /\ req' = [req EXCEPT ![s].pc = "i_delete"]
        /\ gw' = gw
  /\ UNCHANGED <<now, secret, db, issued, started, hist>>

\* line 117: await Payment.findByIdAndDelete(payment._id)
InitDelete(s) ==
  /\ req[s].pc = "i_delete"
  /\ payments' = DeletePayment(payments, req[s].pay)
  /\ last' = last /\ req' = [req EXCEPT ![s].pc = "i_unlink"]
  /\ UNCHANGED <<now, secret, nextPay, apps, enrolled, gw, issued, started, hist, reg>>

\* line 118: application.payment = null
ClearedLink(app) == [app EXCEPT !.payment = Null]

\* lines 118-125: application.payment = null; await application.save(); 500
InitUnlink(s) ==
  /\ req[s].pc = "i_unlink"
  /\ IF SaveValidates(req[s], apps[req[s].app])
       THEN /\ apps' = [apps EXCEPT ![req[s].app] = ClearedLink(@)]
            /\ Reply(s, Ended(req[s], "initialization_failed", Null))
       ELSE /\ apps' = apps
            /\ Reply(s, Ended(req[s], "server_error", Null))
  /\ UNCHANGED <<now, secret, payments, nextPay, enrolled, gw, issued, started, hist, reg>>

\* lines 129-136: payment.reference = paymentResult.data.reference; save; 200
InitSetRef(s) ==
  /\ req[s].pc = "i_setref"
  /\ payments' = [payments EXCEPT ![req[s].pay].ref = SavePath(req[s].docRef, req[s].gref, @)]
  /\ issued' = issued \cup {req[s].gref}
  /\ Reply(s, Ended(req[s], "initialized", req[s].gref))
  /\ UNCHANGED <<now, secret, nextPay, apps, enrolled, gw, started, hist, reg>>

\* -------------------------------------------------------- reconciliation
\* the paths userSchema declares; enrolledPrograms is not among them
UserPaths ==
  {"email", "password", "firstName", "lastName", "phone", "avatar", "role",
   "isActive", "isEmailVerified", "assignedApplications", "permissions",
   "lastLogin", "passwordChangedAt", "resetPasswordToken", "resetPasswordExpires",
   "emailVerificationToken", "emailVerificationExpires"}

\* $addToSet
AddToSet(set, x) == set \cup {x}

\* User.findByIdAndUpdate(id, { $addToSet: { <path>: x } }): the schema is strict
\* (the default), so when the update is cast an operation on a path the schema
\* does not declare is dropped and the stored document keeps what it had
UpdateUserSet(path, stored, x) ==
  IF path \in UserPaths THEN AddToSet(stored, x) ELSE stored

\* lines 208-211 / 413-416: { status: 'enrolled', paymentStatus: 'paid' }
SuccessCascade(app) == [app EXCEPT !.status = "enrolled", !.paymentStatus = "paid"]

\* lines 227-229: { paymentStatus: 'failed' }
FailureCascade(app) == [app EXCEPT !.paymentStatus = "failed"]

\* line 200: verificationData.status === 'success' ? 'success' : 'failed'
SettledStatus(gatewayStatus) == IF gatewayStatus = "success" THEN "success" ELSE "failed"

\* history: the Application's paymentStatus turns into 'paid'
BecamePaid(a) == apps[a].paymentStatus # "paid" /\ apps'[a].paymentStatus = "paid"

NotePaid(h, a) == IF BecamePaid(a) THEN [h EXCEPT !.paid[a] = Bump(@)] ELSE h

\* payment.save() after status, paidAt and verified were assigned (lines 200-204, 405-409)
SaveSettled(r, doc, status, paidAt) ==
  [doc EXCEPT !.status   = SavePath(r.docStatus, status, @),
              !.paidAt   = SavePath(r.docPaidAt, paidAt, @),
              !.verified = SavePath(r.docVerified, TRUE, @)]

\* save() sends an update only when some path was modified
Modified(r, status, paidAt) ==
  r.docStatus # status \/ r.docPaidAt # paidAt \/ ~r.docVerified

\* --------------------------------------------------------- verifyPayment
\* GET /verify?reference=r
\* lines 153-163 and 170-175: `!reference` check, Payment.findOne({ reference });
\* a query that finds no Payment populates nothing and resolves to null
VerifyLookup(s, ref) ==
  /\ LET r == [Arrive(s, "verify") EXCEPT !.ref = ref]
       IN IF ref = Absent
            THEN Reply(s, Ended(r, "reference_required", Null))
            ELSE IF ByReference(ref) = {}
              THEN Reply(s, Ended(r, "payment_not_found", Null))
              ELSE \E p \in ByReference(ref) :
                     last' = last /\ req' = [req EXCEPT ![s] = [Load(r, p) EXCEPT !.pc = "v_populate"]]
  /\ UNCHANGED <<now, secret, db, gw, issued, hist>>

\* lines 164-184: the populate queries of the Payment found, then the verified
\* short-circuit on the document as findOne read it
VerifyPopulate(s) ==
  /\ req[s].pc = "v_populate"
  /\ IF req[s].docVerified
       THEN Reply(s, Ended(Populate(req[s]), "already_verified", Null))
       ELSE last' = last /\ req' = [req EXCEPT ![s] = [Populate(req[s]) EXCEPT !.pc = "v_gateway"]]
  /\ UNCHANGED <<now, secret, db, gw, issued, started, hist>>

VerifyFindFor(s, ref) ==
  /\ VerifyLookup(s, ref)
  /\ started' = started + 1

\* the references the Payments carry (the list of getAllPayments shows them,
\* dashboardController.js:189-206)
StoredRefs == {payments[p].ref : p \in DOMAIN payments}

VerifyFind(s) ==
  /\ CanStart(s)
  /\ \E ref \in issued \cup StoredRefs \cup {NoRef, Absent} : VerifyFindFor(s, ref)

\* paystackClient.transaction.verify({ reference }) has an answer only for a
\* transaction of the gateway
GatewayKnows(ref) == ref \in DOMAIN gw

\* lines 187-197 and PaymentService.verifyPayment: the call answers, or throws
\* (always for a reference the gateway does not know)
VerifyGateway(s) ==
  /\ req[s].pc = "v_gateway"
  /\ \/ /\ GatewayKnows(req[s].ref)
        /\ last' = last /\ req' = [req EXCEPT ![s].pc = "v_save",
                           ![s].outcome = gw[req[s].ref].status,
                           ![s].outPaidAt = gw[req[s].ref].paidAt]
     \/ Reply(s, Ended(req[s], "verification_failed", Null))
  /\ UNCHANGED <<now, secret, db, gw, issued, started, hist>>

\* lines 200-204: status, paidAt, verified assigned; await payment.save()
VerifySave(s) ==
  /\ req[s].pc = "v_save"
  /\ LET p == req[s].pay
         st == SettledStatus(req[s].outcome)
     IN /\ payments' = [payments EXCEPT ![p] = SaveSettled(req[s], @, st, DateOf(req[s].outPaidAt))]
        /\ hist' = IF st = "success" THEN [hist EXCEPT !.pay[p].vsave = Bump(@)] ELSE hist
        /\ last' = last /\ req' = [req EXCEPT ![s].pc = "v_app",
                              ![s].wrote = Modified(req[s], st, DateOf(req[s].outPaidAt))]
  /\ UNCHANGED <<now, secret, nextPay, apps, enrolled, gw, issued, started, reg>>

\* lines 206-214 and 227-235: Application.findByIdAndUpdate; on the success side
\* `payment.user._id` is read next, a TypeError when populate gave null (catch: 500)
VerifyApp(s) ==
  /\ req[s].pc = "v_app"
  /\ LET a == req[s].docApp
         p == req[s].pay
     IN IF SettledStatus(req[s].outcome) = "success"
          THEN /\ apps' = [apps EXCEPT ![a] = SuccessCascade(@)]
               /\ hist' = [NotePaid(hist, a) EXCEPT !.pay[p].vcasc = Bump(@)]
               /\ IF req[s].docUser = Null
                    THEN Reply(s, Ended([req[s] EXCEPT !.cascaded = "success"], "server_error", Null))
                    ELSE last' = last /\ req' = [req EXCEPT ![s].pc = "v_user", ![s].cascaded = "success"]
          ELSE /\ apps' = [apps EXCEPT ![a] = FailureCascade(@)]
               /\ hist' = hist
               /\ Reply(s, Ended([req[s] EXCEPT !.cascaded = "failed"], "not_successful", Null))
  /\ UNCHANGED <<now, secret, payments, nextPay, enrolled, gw, issued, started, reg>>

\* lines 214-225: User.findByIdAndUpdate($addToSet enrolledPrograms); 200
VerifyUser(s) ==
  /\ req[s].pc = "v_user"
  /\ enrolled' = [enrolled EXCEPT ![req[s].docUser] =
                                    UpdateUserSet("enrolledPrograms", @, req[s].docApp)]
  /\ Reply(s, Ended(req[s], "verified", Null))
  /\ UNCHANGED <<now, secret, payments, nextPay, apps, gw, issued, started, hist, reg>>

\* --------------------------------------------------------- handleWebhook
\* the parsed body of a webhook request, as the handler reads it
Payload(r) == [event |-> r.event, ref |-> r.ref, paidAt |-> r.paidAt]

\* the x-paystack-signature header put on the request by its sender
SignatureOf(r) == SignatureBy(r.sigKey, Payload(r))

\* what a webhook body holds for processSuccessfulCharge: "plain" (data with the
\* metadata as an object, or as a string of JSON), "nodata" (no data property),
\* "badmeta" (data.metadata a string that is not JSON)
Shapes == {"plain", "nodata", "badmeta"}

\* Webhooks the gateway sends: signed with the shared secret, about its own transactions.
GatewayWebhooks ==
  {[event |-> "charge.success", ref |-> r, paidAt |-> gw[r].paidAt, sigKey |-> GatewayKey,
    shape |-> "plain"] : r \in {x \in issued : gw[x].status = "success"}}
  \cup {[event |-> "invoice.payment_failed", ref |-> r, paidAt |-> Null, sigKey |-> GatewayKey,
          shape |-> "plain"] : r \in {x \in issued : gw[x].status = "failed"}}
  \cup {[event |-> e, ref |-> NoRef, paidAt |-> Null, sigKey |-> GatewayKey, shape |-> "plain"] :
      e \in {"transfer.success", "subscription.create"}}

\* Webhooks anybody else can send: no signature, or one made with another key.
ForgedWebhooks ==
  {[event |-> e, ref |-> r, paidAt |-> now, sigKey |-> k, shape |-> sh] :
      e \in {"charge.success", "invoice.payment_failed"},
      r \in issued \cup StoredRefs \cup {NoRef}, k \in {NoKey, AttackerKey}, sh \in Shapes}

\* lines 351-366: switch (event): the method called ("none": default, only logged)
Dispatch(event) ==
  CASE event = "charge.success" -> "processSuccessfulCharge"
    [] event = "transfer.success" -> "processSuccessfulTransfer"
    [] event = "invoice.payment_failed" -> "processFailedPayment"
    [] OTHER -> "none"

\* the methods of PaymentController that handleWebhook can reach through `this`
Methods == {"processSuccessfulCharge"}

\* lines 384-389: `const { reference, metadata } = data` throws when data is
\* missing, JSON.parse(metadata) when the string is not JSON
Destructures(shape) == shape = "plain"

\* handleWebhook called as a method of the controller,
\* paymentController.handleWebhook(req, res), with a parsed body
\* lines 337-368 and 384-402: signature check, dispatch on the event;
\* charge.success runs processSuccessfulCharge up to Payment.findOne({ reference }).
\* processSuccessfulTransfer and processFailedPayment are not defined on the
\* controller: calling them throws a TypeError, answered by the catch with 500,
\* as is what processSuccessfulCharge throws (rethrown at 426-429).
WebhookAuthFor(s, w) ==
  /\ LET r == [Arrive(s, "webhook") EXCEPT !.event = w.event, !.ref = w.ref,
                                            !.paidAt = w.paidAt, !.sigKey = w.sigKey]
       IN IF ~verifyWebhookSignature(secret, Payload(r), SignatureOf(r))
            THEN Reply(s, Ended(r, "invalid_signature", Null))
            ELSE CASE Dispatch(w.event) = "none" ->
                        Reply(s, Ended(r, "ack", Null))
                   [] Dispatch(w.event) \notin Methods ->
                        Reply(s, Ended(r, "webhook_error", Null))
                   [] OTHER ->
                        IF ~Destructures(w.shape)
                          THEN Reply(s, Ended(r, "webhook_error", Null))
                          ELSE IF ByReference(w.ref) = {}
                            THEN Reply(s, Ended(r, "ack", Null))
                            ELSE \E p \in ByReference(w.ref) :
                                   last' = last /\ req' = [req EXCEPT ![s] = [Load(r, p) EXCEPT !.pc = "w_populate"]]
  /\ started' = started + 1
  /\ UNCHANGED <<now, secret, db, gw, issued, hist>>

WebhookAuth(s) ==
  /\ CanStart(s)
  /\ \E w \in GatewayWebhooks \cup ForgedWebhooks : WebhookAuthFor(s, w)

\* lines 393-397: the populate queries of the Payment found
WebhookPopulate(s) ==
  /\ req[s].pc = "w_populate"
  /\ last' = last /\ req' = [req EXCEPT ![s] = [Populate(req[s]) EXCEPT !.pc = "w_save"]]
  /\ UNCHANGED <<now, secret, db, gw, issued, started, hist>>

\* the body as the middleware chain hands it to the route: express.raw takes a
\* JSON request (express.json then skips it), express.urlencoded parses a form
BodyOf(payload, ctype) == IF ctype = "json" THEN RawBody(payload) ELSE payload

WebhookRouteFor_Bound(s, w, ctype) ==
  /\ LET r == [Arrive(s, "route") EXCEPT !.event = w.event, !.ref = w.ref,
                                          !.paidAt = w.paidAt, !.sigKey = w.sigKey]
         hit == w.event = "charge.success" /\ Destructures(w.shape)
       IN IF ~verifyWebhookSignature(secret, Payload(r), SignatureOf(r))
            THEN payments' = payments /\ Reply(s, Ended(r, "invalid_signature", Null))
            ELSE /\ payments' = [p \in DOMAIN payments |->
                                   IF hit /\ payments[p].ref = w.ref
                                     THEN [payments[p] EXCEPT !.status = "success", !.verified = TRUE,
                                                              !.paidAt = DateOf(w.paidAt)]
                                     ELSE payments[p]]
                 /\ Reply(s, Ended(r, "ack", Null))
  /\ started' = started + 1
  /\ UNCHANGED <<now, secret, nextPay, apps, enrolled, reg, gw, issued, hist>>

\* POST /api/payments/webhook as registered: router.post('/webhook',
\* paymentController.handleWebhook) hands the method over without its object, so
\* `this` is undefined in the handler: `this.processSuccessfulCharge` (and the other
\* two) throws a TypeError, which the catch answers with 500.  The gateway sends JSON.
WebhookRouteFor(s, w, ctype) ==
  /\ LET r == [Arrive(s, "route") EXCEPT !.event = w.event, !.ref = w.ref,
                                          !.paidAt = w.paidAt, !.sigKey = w.sigKey]
         body == BodyOf(Payload(r), ctype)
       IN IF ~verifyWebhookSignature(secret, body, SignatureOf(r))
            THEN Reply(s, Ended(r, "invalid_signature", Null))
            ELSE IF Dispatch(EventOf(body)) = "none"
                   THEN Reply(s, Ended(r, "ack", Null))
                   ELSE Reply(s, Ended(r, "webhook_error", Null))
  /\ started' = started + 1
  /\ UNCHANGED <<now, secret, db, gw, issued, hist>>

WebhookRoute(s) ==
  /\ CanStart(s)
  /\ \/ \E w \in GatewayWebhooks : WebhookRouteFor(s, w, "json")
     \/ \E w \in ForgedWebhooks, ctype \in {"json", "form"} : WebhookRouteFor(s, w, ctype)

\* lines 405-409: status = 'success', paidAt, verified assigned; await payment.save()
WebhookSave(s) ==
  /\ req[s].pc = "w_save"
  /\ LET p == req[s].pay
     IN /\ payments' = [payments EXCEPT ![p] =
                           SaveSettled(req[s], @, "success", DateOf(req[s].paidAt))]
        /\ hist' = IF Modified(req[s], "success", DateOf(req[s].paidAt))
                     THEN [hist EXCEPT !.pay[p].wsave = Bump(@)] ELSE hist
        /\ last' = last /\ req' = [req EXCEPT ![s].pc = "w_app",
                              ![s].wrote = Modified(req[s], "success", DateOf(req[s].paidAt))]
  /\ UNCHANGED <<now, secret, nextPay, apps, enrolled, gw, issued, started, reg>>

\* lines 412-420: Application.findByIdAndUpdate (payment.application is populated);
\* `payment.user._id` is read next, a TypeError when populate gave null: rethrown
\* at 426-429, answered 500 by handleWebhook's catch
WebhookApp(s) ==
  /\ req[s].pc = "w_app"
  /\ LET a == req[s].docApp
         p == req[s].pay
     IN /\ apps' = [apps EXCEPT ![a] = SuccessCascade(@)]
        /\ hist' = [NotePaid(hist, a) EXCEPT !.pay[p].wcasc = Bump(@)]
        /\ IF req[s].docUser = Null
             THEN Reply(s, Ended([req[s] EXCEPT !.cascaded = "success"], "webhook_error", Null))
             ELSE last' = last /\ req' = [req EXCEPT ![s].pc = "w_user", ![s].cascaded = "success"]
  /\ UNCHANGED <<now, secret, payments, nextPay, enrolled, gw, issued, started, reg>>

\* lines 420-424 and 368: User.findByIdAndUpdate($addToSet); acknowledge
WebhookUser(s) ==
  /\ req[s].pc = "w_user"
  /\ enrolled' = [enrolled EXCEPT ![req[s].docUser] =
                                    UpdateUserSet("enrolledPrograms", @, req[s].docApp)]
  /\ Reply(s, Ended(req[s], "ack", Null))
  /\ UNCHANGED <<now, secret, payments, nextPay, apps, gw, issued, started, hist, reg>>

\* ----------------------------------------------------------- environment
\* the payer completes the checkout of an issued reference at the gateway
PayerPays ==
  /\ \E r \in issued :
       /\ gw[r].status = "abandoned"
       /\ gw' = [gw EXCEPT ![r].status = "success", ![r].paidAt = now]
  /\ UNCHANGED <<now, secret, db, issued, req, started, last, hist>>

\* the charge of an issued reference is declined at the gateway
PayerDeclined ==
  /\ \E r \in issued :
       /\ gw[r].status = "abandoned"
       /\ gw' = [gw EXCEPT ![r].status = "failed", ![r].paidAt = Null]
  /\ UNCHANGED <<now, secret, db, issued, req, started, last, hist>>

\* time passes beyond the expiry horizon of every Payment created so far
Tick ==
  /\ now + ExpiryHorizon + 1 <= MaxTime
  /\ now' = now + ExpiryHorizon + 1
  /\ UNCHANGED <<secret, db, gw, issued, req, started, last, hist>>

\* ---------------------------------------------------------- administration
\* the response of an administration request
AdminEnded(kind, a, result) ==
  [IdleReq EXCEPT !.pc = "done", !.kind = kind, !.app = a, !.result = result]

\* the values updateApplicationStatus accepts (applicationController.js:227)
StatusInputs == {"pending", "reviewing", "accepted", "rejected"}

\* the values a client may send
StatusBodies == StatusInputs \cup {"enrolled"}

\* PATCH /api/applications/:id/status {status} (applicationController.js:222-262):
\* findByIdAndUpdate(id, {status}, {runValidators: true}); a value outside the
\* schema's enum is rejected by the update validator and the catch answers 500
UpdateApplicationStatusFor(a, st) ==
  /\ IF st \notin StatusInputs
       THEN apps' = apps /\ last' = AdminEnded("status", a, "status_required")
       ELSE IF st \notin StatusEnum
         THEN apps' = apps /\ last' = AdminEnded("status", a, "status_error")
         ELSE IF a \notin DOMAIN apps
           THEN apps' = apps /\ last' = AdminEnded("status", a, "application_not_found")
           ELSE /\ apps' = [apps EXCEPT ![a].status = st]
                /\ last' = AdminEnded("status", a, "status_updated")
  /\ started' = started + 1
  /\ UNCHANGED <<now, secret, payments, nextPay, enrolled, reg, gw, issued, req, hist>>

UpdateApplicationStatus ==
  /\ started < MaxReq
  /\ \E a \in DOMAIN apps \cup {NoApp}, st \in StatusBodies : UpdateApplicationStatusFor(a, st)

\* DELETE /api/dashboard/users/:id (dashboardController.js:391-420): an administrator
\* (self: the id is the caller's own) deletes a User
DeleteUserFor(u, self) ==
  /\ IF self
       THEN reg' = reg /\ last' = AdminEnded("deleteUser", NoApp, "cannot_delete_self")
       ELSE IF ~UserExists(u)
         THEN reg' = reg /\ last' = AdminEnded("deleteUser", NoApp, "user_not_found")
         ELSE /\ reg' = [reg EXCEPT !.users = @ \ {u}]
              /\ last' = AdminEnded("deleteUser", NoApp, "user_deleted")
  /\ started' = started + 1
  /\ UNCHANGED <<now, secret, payments, nextPay, apps, enrolled, gw, issued, req, hist>>

DeleteUser ==
  /\ started < MaxReq
  /\ \E u \in Users \cup {NoUser}, self \in BOOLEAN : DeleteUserFor(u, self)

\* POST /api/dashboard/users/assign-applications {reviewerId, applicationIds: [a]}
\* (dashboardController.js:510-559).  The reviewer is an account outside Users;
\* reviewer: User.findById finds one with role reviewer or admissions.
\* lines 514-521: await User.findById(reviewerId)
AssignReviewerFor(s, a, reviewer) ==
  /\ LET r == [Arrive(s, "assign") EXCEPT !.app = a]
       IN IF ~reviewer
            THEN Reply(s, AdminEnded("assign", a, "invalid_reviewer"))
            ELSE last' = last /\ req' = [req EXCEPT ![s] = [r EXCEPT !.pc = "a_find"]]
  /\ started' = started + 1
  /\ UNCHANGED <<now, secret, db, gw, issued, hist>>

AssignReviewer(s) ==
  /\ CanStart(s)
  /\ \E a \in DOMAIN apps \cup {NoApp}, reviewer \in BOOLEAN : AssignReviewerFor(s, a, reviewer)

\* lines 524-534: await Application.find({ _id: {$in: ids}, status: 'pending' })
AssignFind(s) ==
  /\ req[s].pc = "a_find"
  /\ IF req[s].app \in DOMAIN apps /\ apps[req[s].app].status = "pending"
       THEN last' = last /\ req' = [req EXCEPT ![s].pc = "a_user"]
       ELSE Reply(s, AdminEnded("assign", req[s].app, "not_pending"))
  /\ UNCHANGED <<now, secret, db, gw, issued, started, hist>>

\* lines 537-540: await User.findByIdAndUpdate(reviewerId, {$addToSet: {assignedApplications}})
AssignUser(s) ==
  /\ req[s].pc = "a_user"
  /\ last' = last /\ req' = [req EXCEPT ![s].pc = "a_update"]
  /\ UNCHANGED <<now, secret, db, gw, issued, started, hist>>

\* lines 543-551: await Application.updateMany({_id: {$in: ids}}, {status: 'reviewing'}); 200
AssignUpdate(s) ==
  /\ req[s].pc = "a_update"
  /\ apps' = IF req[s].app \in DOMAIN apps
              THEN [apps EXCEPT ![req[s].app].status = "reviewing"] ELSE apps
  /\ Reply(s, AdminEnded("assign", req[s].app, "assigned"))
  /\ UNCHANGED <<now, secret, payments, nextPay, enrolled, reg, gw, issued, started, hist>>

\* the steps of initializePayment behind application.save() (line 102) and of
\* verifyPayment behind an answer of the gateway (line 197)
BehindSave(s) ==
  \/ InitGateway(s)
  \/ InitDelete(s)
  \/ InitUnlink(s)
  \/ InitSetRef(s)
  \/ VerifySave(s)
  \/ VerifyApp(s)
  \/ VerifyUser(s)

\* the positions of those steps
BehindSavePcs == {"i_gateway", "i_delete", "i_unlink", "i_setref", "v_save", "v_app", "v_user"}

Next ==
  \/ \E s \in Slots : InitFind(s)
  \/ \E s \in Slots : InitExpire(s)
  \/ \E s \in Slots : InitPending(s)
  \/ \E s \in Slots : InitReuse(s)
  \/ \E s \in Slots : InitUser(s)
  \/ \E s \in Slots : InitCreate(s)
  \/ \E s \in Slots : InitLink(s)
  \/ \E s \in Slots : VerifyFind(s)
  \/ \E s \in Slots : VerifyPopulate(s)
  \/ \E s \in Slots : VerifyGateway(s)
  \/ \E s \in Slots : WebhookRoute(s)
  \/ UpdateApplicationStatus
  \/ DeleteUser
  \/ \E s \in Slots : AssignReviewer(s)
  \/ \E s \in Slots : AssignFind(s)
  \/ \E s \in Slots : AssignUser(s)
  \/ \E s \in Slots : AssignUpdate(s)
  \/ PayerPays
  \/ PayerDeclined
  \/ Tick

Spec == Init /\ [][Next]_vars

\* every step of the handlers the routes run, those behind the save included
NextCode ==
  \/ Next
  \/ \E s \in Slots : BehindSave(s)

SpecCode == Init /\ [][NextCode]_vars

\* no request gets behind the save: SpecCode has the behaviours of Spec
NoneBehindSave == \A s \in Slots : req[s].pc \notin BehindSavePcs

\* ------------------------------------------------------------------------
\* Cascade updates that fail: Application.findByIdAndUpdate or
\* User.findByIdAndUpdate rejects (the store is unreachable or refuses the write).
MaxFaults == 1       \* failed cascade updates per Payment

CascadeSteps == {"v_app", "v_user", "w_app", "w_user"}

\* lines 238-245 and 426-429, 370-376: the catch blocks log and answer 500 (the
\* webhook's rethrows to handleWebhook's); they do nothing to the Payment
CatchCascade(ps, p) == ps

\* the awaited update of a cascade step rejects: the handler's catch answers 500
CascadeFails(s) ==
  /\ req[s].pc \in CascadeSteps
  /\ hist.pay[req[s].pay].cfail < MaxFaults
  /\ payments' = CatchCascade(payments, req[s].pay)
  /\ hist' = [hist EXCEPT !.pay[req[s].pay].cfail = @ + 1]
  /\ Reply(s, Ended(req[s], "cascade_error", Null))
  /\ UNCHANGED <<now, secret, nextPay, apps, enrolled, gw, issued, started, reg>>

\* handleWebhook and processSuccessfulCharge run as methods of the controller: the
\* steps of the class that no route of the program runs
HandlerSteps(s) ==
  \/ WebhookAuth(s)
  \/ WebhookPopulate(s)
  \/ WebhookSave(s)
  \/ WebhookApp(s)
  \/ WebhookUser(s)
  \/ CascadeFails(s)

NextHandler ==
  \/ NextCode
  \/ \E s \in Slots : HandlerSteps(s)

SpecHandler == Init /\ [][NextHandler]_vars

\* ------------------------------------------------------------------------
\* Longer runs, on a deployment without webhook secret: every initializePayment
\* names an existing Application and a registered email, every verify gives a
\* reference a client can hold (of a Payment, or of a checkout session), webhooks
\* are charge.success events, sent as JSON by the gateway for a checkout that was
\* paid or unsigned by anybody for the reference of a Payment; an administrator
\* may delete a User.
MaxReqLong == 4      \* total number of requests started in a behaviour of SpecLong

CanStartLong(s) == started < MaxReqLong /\ FirstFree(s)

InitLong == Init /\ secret = NoKey

InitFindLong(s) ==
  /\ CanStartLong(s)
  /\ \E a \in Apps, e \in Users : InitFindFor(s, a, e, MaxAmount)

VerifyFindLong(s) ==
  /\ CanStartLong(s)
  /\ \E ref \in StoredRefs \cup issued : VerifyFindFor(s, ref)

WebhookRouteLong(s) ==
  /\ CanStartLong(s)
  /\ \E w \in {x \in GatewayWebhooks \cup ForgedWebhooks :
                 /\ x.event = "charge.success" /\ x.shape = "plain"
                 /\ x.sigKey \in {NoKey, GatewayKey}
                 /\ x.ref \in StoredRefs \cup issued} :
       WebhookRouteFor(s, w, "json")

DeleteUserLong ==
  /\ started < MaxReqLong
  /\ \E u \in reg.users : DeleteUserFor(u, FALSE)

NextLong ==
  \/ \E s \in Slots : InitFindLong(s)
  \/ \E s \in Slots : InitPending(s)
  \/ \E s \in Slots : InitExpire(s)
  \/ \E s \in Slots : InitReuse(s)
  \/ \E s \in Slots : InitUser(s)
  \/ \E s \in Slots : InitCreate(s)
  \/ \E s \in Slots : InitLink(s)
  \/ \E s \in Slots : VerifyFindLong(s)
  \/ \E s \in Slots : VerifyPopulate(s)
  \/ \E s \in Slots : VerifyGateway(s)
  \/ \E s \in Slots : WebhookRouteLong(s)
  \/ PayerPays
  \/ DeleteUserLong
  \/ Tick

SpecLong == InitLong /\ [][NextLong]_vars

\* ------------------------------------------------------------------------
\* Amounts: initializePayment requests that carry different amounts for the same
\* Application; checkouts are opened but nobody pays and nothing expires.
\* (In the other specifications every request carries the amount MaxAmount.)
CanStartAmount(s) == started < MaxReqAmount /\ FirstFree(s)

InitFindAmount(s) ==
  /\ CanStartAmount(s)
  /\ \E a \in Apps, e \in Users, amt \in 1..MaxAmount : InitFindFor(s, a, e, amt)

NextAmount ==
  \/ \E s \in Slots : InitFindAmount(s)
  \/ \E s \in Slots : InitPending(s)
  \/ \E s \in Slots : InitReuse(s)
  \/ \E s \in Slots : InitUser(s)
  \/ \E s \in Slots : InitCreate(s)
  \/ \E s \in Slots : InitLink(s)

SpecAmount == Init /\ [][NextAmount]_vars

\* ------------------------------------------------------------------------
\* submitApplication (POST /api/applications/submit)
\* What the handler's checks see of a body: validationResult(req) is empty,
\* password === confirmPassword, the User schema accepts the account fields,
\* the Application schema accepts the form fields; and what the body says about
\* status, paymentStatus and payment ('accepted' is not in the schema's status enum).
Bodies ==
  {DefaultBody,
   [status |-> "enrolled", paymentStatus |-> "paid", payment |-> Null],
   [status |-> "pending", paymentStatus |-> "pending", payment |-> 1],
   [status |-> "accepted", paymentStatus |-> "pending", payment |-> Null]}

Forms ==
  [valid : BOOLEAN, match : BOOLEAN, userOk : BOOLEAN, appOk : BOOLEAN, body : Bodies]

\* Application.save() of the new document: the form fields and the enums
\* (password is set on a new document, so confirmPassword is compared with it)
NewValidates(f) ==
  /\ f.appOk
  /\ f.body.status \in StatusEnum
  /\ f.body.paymentStatus \in PaymentStatusEnum

CanStartSubmit(s) == started < MaxReqSubmit /\ FirstFree(s)

\* the response of a submitApplication request; `wrote`: it created a User
SubmitEnded(r, result) ==
  [IdleReq EXCEPT !.pc = "done", !.kind = r.kind, !.result = result,
                  !.email = r.email, !.wrote = r.wrote]

\* Application.findOne({ email, status: 'pending' }) returns a document
PendingApplication(e) ==
  \E a \in DOMAIN apps : apps[a].email = e /\ apps[a].status = "pending"

\* the _id of the next Application
NewApplicationId == Cardinality(DOMAIN apps) + 1

\* the catch at 92-123 for an error that is not a ValidationError: code 11000 or
\* name 'MongoError' is answered 409, anything else 500
DriverErrors == {"email_exists", "submit_error"}

\* lines 9-28: validationResult, Application.findOne({ email, status: 'pending' })
SubmitFindFor(s, e, f) ==
  /\ LET r == [Arrive(s, "submit") EXCEPT !.email = e, !.form = f]
       IN IF ~f.valid
            THEN Reply(s, SubmitEnded(r, "validation_errors"))
            ELSE IF PendingApplication(e)
              THEN Reply(s, SubmitEnded(r, "pending_application"))
              ELSE last' = last /\ req' = [req EXCEPT ![s] = [r EXCEPT !.pc = "s_user"]]
  /\ started' = started + 1
  /\ UNCHANGED <<now, secret, db, gw, issued, hist>>

SubmitFind(s) ==
  /\ CanStartSubmit(s)
  /\ \E e \in Users \cup Applicants, f \in Forms : SubmitFindFor(s, e, f)

\* lines 31-47: User.findOne({ email }), then the password comparison
SubmitUser(s) ==
  /\ req[s].pc = "s_user"
  /\ IF UserExists(req[s].email)
       THEN Reply(s, SubmitEnded(req[s], "user_exists"))
       ELSE IF ~req[s].form.match
         THEN Reply(s, SubmitEnded(req[s], "password_mismatch"))
         ELSE last' = last /\ req' = [req EXCEPT ![s].pc = "s_create"]
  /\ UNCHANGED <<now, secret, db, gw, issued, started, hist>>

\* lines 50-59 and the catch at 92-123: User.create validates, then inserts under
\* the unique index on email; or the database call fails
SubmitCreate(s) ==
  /\ req[s].pc = "s_create"
  /\ \/ IF ~req[s].form.userOk
          THEN reg' = reg /\ Reply(s, SubmitEnded(req[s], "validation_failed"))
          ELSE IF UserExists(req[s].email)
            THEN reg' = reg /\ Reply(s, SubmitEnded(req[s], "email_exists"))
            ELSE /\ reg' = [reg EXCEPT !.users = @ \cup {req[s].email}]
                 /\ last' = last /\ req' = [req EXCEPT ![s].pc = "s_save", ![s].wrote = TRUE]
     \/ \E err \in DriverErrors : reg' = reg /\ Reply(s, SubmitEnded(req[s], err))
  /\ UNCHANGED <<now, secret, payments, nextPay, apps, enrolled, gw, issued, started, hist>>

\* lines 62-90 and the catch at 92-123: new Application(body).save() validates,
\* then inserts; or the database call fails
SubmitSave(s) ==
  /\ req[s].pc = "s_save"
  /\ \/ IF ~NewValidates(req[s].form)
          THEN apps' = apps /\ Reply(s, SubmitEnded(req[s], "validation_failed"))
          ELSE /\ apps' = (NewApplicationId :> NewApplication(req[s].email, req[s].form.body)) @@ apps
               /\ Reply(s, SubmitEnded(req[s], "submitted"))
     \/ \E err \in DriverErrors : apps' = apps /\ Reply(s, SubmitEnded(req[s], err))
  /\ UNCHANGED <<now, secret, payments, nextPay, enrolled, reg, gw, issued, started, hist>>

\* administration requests between the submissions
UpdateStatusSubmit ==
  /\ started < MaxReqSubmit
  /\ \E a \in DOMAIN apps, st \in StatusEnum \cap StatusInputs : UpdateApplicationStatusFor(a, st)

DeleteUserSubmit ==
  /\ started < MaxReqSubmit
  /\ \E u \in reg.users : DeleteUserFor(u, FALSE)

AssignReviewerSubmit(s) ==
  /\ CanStartSubmit(s)
  /\ \E a \in DOMAIN apps : AssignReviewerFor(s, a, TRUE)

NextSubmit ==
  \/ \E s \in Slots : SubmitFind(s)
  \/ \E s \in Slots : SubmitUser(s)
  \/ \E s \in Slots : SubmitCreate(s)
  \/ \E s \in Slots : SubmitSave(s)
  \/ UpdateStatusSubmit
  \/ DeleteUserSubmit
  \/ \E s \in Slots : AssignReviewerSubmit(s)
  \/ \E s \in Slots : AssignFind(s)
  \/ \E s \in Slots : AssignUser(s)
  \/ \E s \in Slots : AssignUpdate(s)

SpecSubmit == Init /\ [][NextSubmit]_vars

\* every request: those in flight and the one that responded last
Requests == {req[s] : s \in Slots} \cup {last}

\* a response is given in this step (on arrival, or by a request in flight)
Responds ==
  \/ started' # started /\ \A s \in Slots : req'[s] = req[s]
  \/ \E s \in Slots : InFlight(s) /\ req'[s].pc = "idle"

\* the sender's signature is the MAC of what it sent under the configured secret,
\* or no secret is configured (the check then passes every request)
Authenticated(r) == secret = NoKey \/ r.sigKey = secret

\* r is the response to a reconciliation for reference g: a verifyPayment, or the
\* delivery of an authenticated charge.success webhook
Reconciled(r, g) ==
  /\ r.pc = "done" /\ r.ref = g
  /\ \/ r.kind = "verify"
     \/ r.kind \in {"webhook", "route"} /\ r.event = "charge.success" /\ Authenticated(r)

\* g is the reference of a checkout session that was paid at the gateway
Paid(g) == g \in issued /\ gw[g].status = "success"

\* r is the response to the charge.success webhook the gateway sent for reference g
\* (it sends one once the checkout was paid)
Delivered(r, g) ==
  /\ Reconciled(r, g) /\ r.kind \in {"webhook", "route"} /\ r.sigKey = GatewayKey

\* the Payment a checkout session was opened for (metadata.paymentId)
PaidFor(g) == gw[g].paymentId

\* saves of status 'success' and success cascades recorded for Payment p
Commits(h, p) == h.pay[p].vsave + h.pay[p].wsave

Cascades(h, p) == h.pay[p].vcasc + h.pay[p].wcasc

\* ------------------------------------------------------------------ C1
\* C1 (as claimed): race safety. When the gateway's charge.success webhook for the
\* reference of a paid checkout and a verifyPayment for the same reference have
\* both answered, exactly one transition to success of the Payment has been
\* committed and its Application/User cascade has run exactly once.
C1_RaceSafety ==
  [][(/\ Responds
      /\ Paid(last'.ref)
      /\ Delivered(last, last'.ref)
      /\ Reconciled(last', last'.ref) /\ last'.kind = "verify")
       => /\ Commits(hist', PaidFor(last'.ref)) = 1
          /\ Cascades(hist', PaidFor(last'.ref)) = 1]_vars

\* ------------------------------------------------------------------ C2
\* C2 (as claimed): idempotency. A reconciliation (verifyPayment or authenticated
\* charge.success webhook) for the reference of a paid checkout that runs in
\* sequence after the gateway's charge.success webhook for the same reference has
\* answered writes nothing to any Payment, is answered with a success (200), and
\* the cascade of the Payment has then been performed once.
C2_Idempotent ==
  [][(/\ Responds /\ last'.alone
      /\ Paid(last'.ref)
      /\ Delivered(last, last'.ref) /\ Reconciled(last', last'.ref))
       => /\ payments' = payments
          /\ Code(last'.result) = 200
          /\ Cascades(hist', PaidFor(last'.ref)) = 1]_vars

\* ------------------------------------------------------------------ C3
\* C3: Payment.status is monotonic. A Payment whose status is terminal keeps that
\* status in every later state.
C3_Monotonic ==
  [][\A p \in DOMAIN payments :
       (payments[p].status \in Terminal /\ p \in DOMAIN payments')
         => payments'[p].status = payments[p].status]_vars

\* an acknowledged charge.success webhook for the reference of an expired Payment
\* has left it expired
C3_Witness ==
  /\ last.kind = "route" /\ last.pc = "done" /\ last.event = "charge.success"
  /\ last.result = "ack"
  /\ \E p \in ByReference(last.ref) : payments[p].status = "expired"

\* ------------------------------------------------------------------ C4
\* C4 (as claimed): an Application's paymentStatus turns into paid at most once,
\* and an Application that is paid is enrolled and has a Payment settled as success.
C4_PaidOnce ==
  \A a \in DOMAIN apps :
    /\ a \in Apps => hist.paid[a] <= 1
    /\ apps[a].paymentStatus = "paid"
         => /\ apps[a].status = "enrolled"
            /\ \E p \in DOMAIN payments : payments[p].app = a /\ payments[p].status = "success"

\* ------------------------------------------------------------------ C5
\* an initializePayment that answered 200 from the re-use branch
ReusedResponse(r) ==
  /\ r.kind = "init" /\ r.pc = "done" /\ r.result = "initialized"
  /\ r.old # Null /\ r.pay = r.old

\* C5 (as claimed): re-initializing while a non-expired pending Payment exists
\* returns a checkout session whose reference is that Payment's reference.
C5_ReuseSameReference == ReusedResponse(last) => last.retRef = last.oldRef

\* ------------------------------------------------------------------ C6
\* an initializePayment that found an expired pending Payment, went on with a
\* registered email, and has responded
FoundExpired(r) ==
  /\ r.kind = "init" /\ r.pc = "done" /\ r.result # "user_not_found"
  /\ r.old # Null /\ r.pay # r.old

\* C6 (as claimed): whenever initializePayment finds an expired pending Payment,
\* a new Payment with a different reference exists and is linked to the Application
\* when it responds, the old one is expired and its reference is not returned.
C6_ExpiryAsClaimed ==
  FoundExpired(last) =>
    /\ last.pay \in DOMAIN payments
    /\ payments[last.pay].ref # last.oldRef
    /\ apps[last.app].payment = last.pay
    /\ last.old \in DOMAIN payments => payments[last.old].status = "expired"
    /\ last.retRef # last.oldRef

\* ------------------------------------------------------------------ C7
\* an initializePayment that created a Payment and answered with an error
FailedInitialization(r) ==
  /\ r.kind = "init" /\ r.pc = "done" /\ Code(r.result) >= 400
  /\ r.pay # Null /\ r.pay # r.old

\* C7 (as claimed): when initializePayment answers with an error after having
\* created a Payment, that Payment no longer exists and the Application's payment
\* link is unset: no pending Payment created by a failed initialization survives.
C7_Rollback ==
  FailedInitialization(last) =>
    /\ last.pay \notin DOMAIN payments
    /\ apps[last.app].payment = Null

\* ------------------------------------------------------------------ C9
\* the signature of the request is missing or is not the MAC of its body under
\* the configured secret
BadSignature(r) ==
  /\ secret # NoKey
  /\ SignatureOf(r) # Hmac(secret, Stringify(Payload(r)))

\* C9: with the secret configured, a webhook whose signature is missing or does not
\* match is answered 401 on arrival, never gets to write or cascade, and the step
\* that handles it changes no Payment, Application or User.
C9_BadSignatureRejected ==
  /\ [](\A r \in Requests :
          (r.kind \in {"webhook", "route"} /\ BadSignature(r))
             => (r.pc = "done" /\ r.result = "invalid_signature"
                 /\ ~r.wrote /\ r.cascaded = "none"))
  /\ [][(started' # started /\ last'.kind \in {"webhook", "route"} /\ BadSignature(last')
           /\ \A s \in Slots : req'[s] = req[s])
          => (Code(last'.result) = 401 /\ UNCHANGED <<payments, apps, enrolled>>)]_vars

C9_Witness ==
  /\ secret = GatewayKey
  /\ last.kind = "route" /\ BadSignature(last) /\ last.result = "invalid_signature"
  /\ \E p \in ByReference(last.ref) :
       payments[p].status = "pending" /\ ~payments[p].verified

\* ----------------------------------------------------------------- C10
\* C10 (as claimed): with no secret configured every webhook is rejected (the code
\* has no opt-in flag for accepting unsigned webhooks).
C10_FailClosed ==
  secret = NoKey =>
    \A r \in Requests :
      r.kind \in {"webhook", "route"} => (r.pc = "done" /\ r.result = "invalid_signature")

\* ----------------------------------------------------------------- C11
\* the step is a request of this kind that is answered on arrival
Answered(kind) ==
  /\ started' # started
  /\ \A s \in Slots : req'[s] = req[s]
  /\ last'.kind = kind

\* C11 (as claimed): an authenticated charge.success webhook for the reference
\* of a pending Payment, delivered through the registered POST /webhook route, is
\* acknowledged with 200 and has then settled the Payment (success, verified, paidAt
\* set) and the linked Application (enrolled, paid).
C11_WebhookViaRoute ==
  [][(/\ Answered("route")
      /\ Authenticated(last') /\ last'.event = "charge.success"
      /\ \E p \in ByReference(last'.ref) : payments[p].status = "pending")
       => /\ last'.result = "ack"
          /\ \A p \in ByReference(last'.ref) :
               /\ p \in DOMAIN payments'
               /\ payments'[p].status = "success" /\ payments'[p].verified
               /\ payments'[p].paidAt # Unset
               /\ apps'[payments'[p].app].status = "enrolled"
               /\ apps'[payments'[p].app].paymentStatus = "paid"]_vars

\* ----------------------------------------------------------------- C12
\* C12 (as claimed): an authenticated failure event (invoice.payment_failed)
\* for the reference of a pending Payment is acknowledged with 200 and has then
\* settled the Payment as failed and verified and the Application's paymentStatus
\* as failed.
C12_FailureEvent ==
  [][(/\ Answered("webhook") \/ Answered("route")
      /\ Authenticated(last') /\ last'.event = "invoice.payment_failed"
      /\ \E p \in ByReference(last'.ref) : payments[p].status = "pending")
       => /\ last'.result = "ack"
          /\ \A p \in ByReference(last'.ref) :
               /\ p \in DOMAIN payments'
               /\ payments'[p].status = "failed" /\ payments'[p].verified
               /\ apps'[payments'[p].app].paymentStatus = "failed"]_vars

\* ----------------------------------------------------------------- C13
\* the event types that carry the outcome of a payment (charge.success, and the
\* failure event of C12); every other type is one the handler is to ignore
Recognized == {"charge.success", "invoice.payment_failed"}

\* C13 (as claimed): an authenticated webhook whose event type is not recognized is
\* answered on arrival with a 200 acknowledgement, and the step that handles it
\* leaves the Payment, Application and User collections as they were.
C13_UnrecognizedEvent ==
  /\ [](\A s \in Slots :
          (req[s].kind \in {"webhook", "route"} /\ InFlight(s))
             => req[s].event \in Recognized)
  /\ [][(/\ Answered("webhook") \/ Answered("route")
         /\ Authenticated(last')
         /\ last'.event \notin Recognized)
          => (Code(last'.result) = 200 /\ last'.result = "ack" /\ UNCHANGED db)]_vars

\* ----------------------------------------------------------------- C15
\* no Payment carries this reference
Unknown(ref) == \A p \in DOMAIN payments : payments[p].ref # ref

\* C15 (as claimed): a verifyPayment that gives a reference no Payment carries is
\* answered 404, and an authenticated charge.success webhook for such a reference is
\* acknowledged with 200; in both cases the step changes no Payment, Application or
\* User and creates no Payment.  A verify or webhook request that goes on past its
\* lookup holds the Payment that carries its reference.
C15_UnknownReference ==
  /\ [](\A s \in Slots :
          (InFlight(s) /\ req[s].kind \in {"verify", "webhook", "route"})
             => /\ req[s].pay \in DOMAIN payments
                /\ payments[req[s].pay].ref = req[s].ref)
  /\ [][(Answered("verify") /\ last'.ref # Absent /\ Unknown(last'.ref))
          => (last'.result = "payment_not_found" /\ Code(last'.result) = 404
              /\ UNCHANGED db)]_vars
  /\ [][(/\ Answered("webhook") \/ Answered("route")
         /\ Unknown(last'.ref)
         /\ last'.event = "charge.success" /\ Authenticated(last'))
          => (last'.result = "ack" /\ Code(last'.result) = 200 /\ UNCHANGED db)]_vars

\* ----------------------------------------------------------------- C19
\* C19: in every state a Payment whose paidAt is set has status success; a Payment
\* that is pending or expired has no paidAt.
C19_PaidAtOnlyOnSuccess ==
  \A p \in DOMAIN payments :
    payments[p].paidAt # Unset => payments[p].status = "success"

\* an initializePayment has expired a Payment and created the next one: neither
\* the expired nor the pending Payment has a paidAt
C19_Witness ==
  /\ last.kind = "init" /\ last.pc = "done" /\ last.old # Null
  /\ last.old \in DOMAIN payments /\ last.pay \in DOMAIN payments
  /\ payments[last.old].status = "expired" /\ payments[last.old].paidAt = Unset
  /\ payments[last.pay].status = "pending" /\ payments[last.pay].paidAt = Unset

\* ----------------------------------------------------------------- C20
\* C20 (as claimed): a verifyPayment or webhook that finds a pending Payment whose
\* expiresAt has passed does not go on to settle it, and a pending Payment whose
\* expiresAt has passed is never settled: the next step that writes it makes it
\* expired.
C20_LazyExpiry ==
  /\ [][\A s \in Slots :
          (/\ req[s].pc \in {"v_populate", "w_populate"} /\ req'[s].pc \in {"v_gateway", "w_save"}
           /\ payments[req'[s].pay].status = "pending")
            => ~IsExpired(payments[req'[s].pay], now)]_vars
  /\ [][\A p \in DOMAIN payments :
          (/\ payments[p].status = "pending" /\ IsExpired(payments[p], now)
           /\ p \in DOMAIN payments')
            => payments'[p].status \in {"pending", "expired"}]_vars

\* ----------------------------------------------------------------- C22
\* C22 (as claimed): an initializePayment whose applicationId matches no Application
\* is answered 404 on arrival, and that step creates no Payment, opens no gateway
\* transaction, issues no reference and changes no Application or User; no
\* initializePayment for such an id ever gets past the lookup.
C22_ApplicationNotFound ==
  /\ [](\A s \in Slots :
          (InFlight(s) /\ req[s].kind = "init") => req[s].app \in DOMAIN apps)
  /\ [][(Answered("init") /\ last'.app \notin DOMAIN apps)
          => (/\ last'.result = "application_not_found" /\ Code(last'.result) = 404
              /\ UNCHANGED <<db, gw, issued>>)]_vars

\* ----------------------------------------------------------------- C23
\* C23 (as claimed): when a verifyPayment has answered 400 'verification failed',
\* its Payment is still pending and not verified, the request wrote nothing and ran
\* no cascade, and the gateway has a transaction for the reference, so that a later
\* verifyPayment for it can get an answer and settle the Payment.
C23_VerificationFailure ==
  (last.kind = "verify" /\ last.pc = "done" /\ last.result = "verification_failed")
    => /\ ~last.wrote /\ last.cascaded = "none"
       /\ last.pay \in DOMAIN payments
            => (last.docStatus = "pending" /\ ~last.docVerified
                /\ payments[last.pay].ref = last.ref)
       /\ GatewayKnows(last.ref)

\* ----------------------------------------------------------------- C24
\* C24 (as claimed): in every state at most one Payment with status pending exists
\* per Application.
C24_NoDuplicatePending ==
  \A a \in Apps : Cardinality(PendingOf(a)) <= 1

\* ----------------------------------------------------------------- C25
\* C25 (as claimed): when initializePayment answers 200, the reference it returns
\* is the reference stored on a pending Payment of the request's Application.
C25_ReturnedReferenceStored ==
  [][\A s \in Slots :
       (req[s].kind = "init" /\ req'[s].pc = "idle" /\ last'.result = "initialized")
         => \E p \in DOMAIN payments' :
              /\ payments'[p].ref = last'.retRef
              /\ payments'[p].app = last'.app
              /\ payments'[p].status = "pending"]_vars

\* ----------------------------------------------------------------- C26
\* no request is in flight
Quiescent == \A s \in Slots : ~InFlight(s)

\* C26 (as claimed): whenever no request is in flight, each Application's payment
\* link is unset or references an existing Payment of that Application, and if a
\* pending Payment exists for the Application the link references a pending one.
C26_LinkConsistent ==
  Quiescent =>
    \A a \in Apps :
      /\ apps[a].payment # Null
           => (apps[a].payment \in DOMAIN payments /\ payments[apps[a].payment].app = a)
      /\ PendingOf(a) # {} => apps[a].payment \in PendingOf(a)

\* ----------------------------------------------------------------- C27
\* C27 (as claimed): whenever no request is in flight and an Application is paid
\* and enrolled, some Payment of that Application has status success and is verified.
C27_PaidHasSuccessPayment ==
  Quiescent =>
    \A a \in DOMAIN apps :
      (apps[a].paymentStatus = "paid" /\ apps[a].status = "enrolled")
        => \E p \in DOMAIN payments :
             payments[p].app = a /\ payments[p].status = "success" /\ payments[p].verified

\* ----------------------------------------------------------------- C29
\* C29 (as claimed): every checkout session opened at the gateway for a Payment
\* carries that Payment's stored amount (minor units), whatever amount the
\* initializePayment request that opened it carried.
C29_CheckoutAmountIsStored ==
  \A r \in DOMAIN gw :
    gw[r].paymentId \in DOMAIN payments => gw[r].amount = payments[gw[r].paymentId].amount

\* ----------------------------------------------------------------- C30
\* C30 (as claimed): when submitApplication answers with an error, a User that
\* the request created is no longer stored.
C30_AllOrNothing ==
  [][\A s \in Slots :
       (/\ req[s].kind = "submit" /\ InFlight(s) /\ req'[s].pc = "idle"
        /\ Code(last'.result) >= 400 /\ req[s].wrote)
         => req[s].email \notin reg'.users]_vars

====
